---- MODULE Spec2Model ----
(***************************************************************************)
(* Model of the scoring pipeline of the Customer Success Health Dashboard  *)
(* (src/app.py): validation of the required columns, compute_health_scores,*)
(* expansion_potential, renewal_risk and recommended_actions, run once     *)
(* over an uploaded table with the five slider weights.                    *)
(*                                                                         *)
(* Numbers are IEEE-like values: an exact fraction n/d in lowest terms,    *)
(* NaN, +inf or -inf, with pandas/numpy rules for division by zero, NaN    *)
(* propagation, clip and fillna.  Rounding to one decimal is exact except  *)
(* at a tie (x.x5), where the outcome of the floating-point computation    *)
(* depends on representation error, so both neighbours are possible.       *)
(***************************************************************************)
EXTENDS Integers, Sequences, FiniteSets, TLC

VARIABLES columns, df_raw, weights, pc, df, error

vars == <<columns, df_raw, weights, pc, df, error>>

----------------------------------------------------------------------------
(* Bounds of the model *)

MaxRecords == 2

MaxMissing == 2

----------------------------------------------------------------------------
(* Floating-point values *)

Abs(i) == IF i < 0 THEN -i ELSE i

RECURSIVE GCD(_, _)
GCD(a, b) == IF b = 0 THEN a ELSE GCD(b, a % b)

NaN == [k |-> "nan", n |-> 0, d |-> 1]

PInf == [k |-> "inf", n |-> 1, d |-> 1]

NInf == [k |-> "inf", n |-> -1, d |-> 1]

Fin(n, d) ==
    LET s == IF d < 0 THEN -1 ELSE 1
        g == GCD(Abs(n), Abs(d))
    IN  [k |-> "fin", n |-> (s * n) \div g, d |-> (s * d) \div g]

Num(i) == [k |-> "fin", n |-> i, d |-> 1]

IsFin(x) == x.k = "fin"

IsNaN(x) == x.k = "nan"

Sign(x) == IF x.n > 0 THEN 1 ELSE IF x.n < 0 THEN -1 ELSE 0

InfOf(s) == IF s > 0 THEN PInf ELSE NInf

Neg(x) == [x EXCEPT !.n = -x.n]

Add(x, y) ==
    IF IsNaN(x) \/ IsNaN(y) THEN NaN
    ELSE IF IsFin(x) /\ IsFin(y) THEN Fin(x.n * y.d + y.n * x.d, x.d * y.d)
    ELSE IF IsFin(x) THEN y
    ELSE IF IsFin(y) THEN x
    ELSE IF x = y THEN x ELSE NaN

Sub(x, y) == Add(x, Neg(y))

Mul(x, y) ==
    IF IsNaN(x) \/ IsNaN(y) THEN NaN
    ELSE IF IsFin(x) /\ IsFin(y) THEN Fin(x.n * y.n, x.d * y.d)
    ELSE IF Sign(x) = 0 \/ Sign(y) = 0 THEN NaN
    ELSE InfOf(Sign(x) * Sign(y))

Div(x, y) ==
    IF IsNaN(x) \/ IsNaN(y) THEN NaN
    ELSE IF IsFin(y)
         THEN IF y.n = 0
              THEN IF Sign(x) = 0 THEN NaN ELSE InfOf(Sign(x))
              ELSE IF IsFin(x) THEN Fin(x.n * y.d, x.d * y.n)
                   ELSE InfOf(Sign(x) * Sign(y))
         ELSE IF IsFin(x) THEN Num(0) ELSE NaN

Lt(x, y) ==
    /\ ~IsNaN(x)
    /\ ~IsNaN(y)
    /\ \/ IsFin(x) /\ IsFin(y) /\ x.n * y.d < y.n * x.d
       \/ x = NInf /\ y # NInf
       \/ y = PInf /\ x # PInf

Le(x, y) == ~IsNaN(x) /\ ~IsNaN(y) /\ (x = y \/ Lt(x, y))

Gt(x, y) == Lt(y, x)

Ge(x, y) == Le(y, x)

Clip(x, lo, hi) ==
    IF IsNaN(x) THEN x
    ELSE IF Lt(x, lo) THEN lo
    ELSE IF Gt(x, hi) THEN hi
    ELSE x

FillNa(x, v) == IF IsNaN(x) THEN v ELSE x

SeriesMax(S) ==
    LET V == {x \in S : ~IsNaN(x)}
    IN  IF V = {} THEN NaN ELSE CHOOSE m \in V : \A y \in V : Le(y, m)

Round1(x) ==
    IF ~IsFin(x) THEN {x}
    ELSE LET p  == 10 * x.n
             fl == p \div x.d
             r  == p - fl * x.d
         IN  IF 2 * r < x.d THEN {Fin(fl, 10)}
             ELSE IF 2 * r > x.d THEN {Fin(fl + 1, 10)}
             ELSE {Fin(fl, 10), Fin(fl + 1, 10)}

----------------------------------------------------------------------------
(* Cells of the uploaded table *)

NumCell(n, d) == [t |-> "num", n |-> n, d |-> d]

DateCell(ord) == [t |-> "date", n |-> ord, d |-> 1]

BadCell == [t |-> "bad", n |-> 0, d |-> 1]

to_numeric(cell) == IF cell.t = "num" THEN Fin(cell.n, cell.d) ELSE NaN

today == 0

to_datetime(cell) == IF cell.t = "date" THEN Num(cell.n) ELSE NaN

----------------------------------------------------------------------------
(* Configuration *)

required_cols ==
    << "Customer", "Segment", "ARR", "Renewal_Date", "NPS",
       "Tickets_Last_90d", "CSAT", "Logins_Last_30d", "Active_Users",
       "Total_Seats" >>

RequiredSet == {required_cols[i] : i \in 1..Len(required_cols)}

RECURSIVE missingFrom(_, _)
missingFrom(i, cols) ==
    IF i > Len(required_cols) THEN <<>>
    ELSE IF required_cols[i] \notin cols
         THEN <<required_cols[i]>> \o missingFrom(i + 1, cols)
         ELSE missingFrom(i + 1, cols)

missing_skips_first(cols) == missingFrom(2, cols)

missing(cols) == missingFrom(1, cols)

WeightNames == {"nps", "csat", "usage", "logins", "tickets"}

SumWeights(w) ==
    Add(Add(Add(Add(w["nps"], w["csat"]), w["usage"]), w["logins"]), w["tickets"])

----------------------------------------------------------------------------
(* compute_health_scores *)

coerce(raw) ==
    [ NPS              |-> FillNa(to_numeric(raw["NPS"]), Num(0)),
      Tickets_Last_90d |-> FillNa(to_numeric(raw["Tickets_Last_90d"]), Num(0)),
      CSAT             |-> FillNa(to_numeric(raw["CSAT"]), Num(0)),
      Logins_Last_30d  |-> FillNa(to_numeric(raw["Logins_Last_30d"]), Num(0)),
      Active_Users     |-> FillNa(to_numeric(raw["Active_Users"]), Num(0)),
      Total_Seats      |-> FillNa(to_numeric(raw["Total_Seats"]), Num(1)),
      Renewal_Date     |-> to_datetime(raw["Renewal_Date"]) ]

Usage_Ratio(c) == Clip(Div(c.Active_Users, c.Total_Seats), Num(0), Num(1))

score_nps(c) == Div(Add(Clip(c.NPS, Num(-100), Num(100)), Num(100)), Num(200))

score_csat_from_zero(c) ==
    Div(Sub(Clip(c.CSAT, Num(1), Num(5)), Num(1)), Num(4))

score_csat(c) == Div(Clip(c.CSAT, Num(1), Num(5)), Num(5))

score_logins(c, maxLogins) == FillNa(Div(c.Logins_Last_30d, maxLogins), Num(0))

score_tickets(c, maxTickets) ==
    Clip(Sub(Num(1), FillNa(Div(c.Tickets_Last_90d, maxTickets), Num(0))),
         Num(0), Num(1))

weighted_sum(s, w) ==
    Add(Add(Add(Add(Mul(s.score_nps, w["nps"]),
                    Mul(s.score_csat, w["csat"])),
                Mul(s.score_usage, w["usage"])),
            Mul(s.score_logins, w["logins"])),
        Mul(s.score_tickets, w["tickets"]))

Health_Score(s, w) == Round1(Mul(Div(weighted_sum(s, w), SumWeights(w)), Num(100)))

Health_Band_left_closed(h) ==
    IF Le(Num(-1), h) /\ Lt(h, Fin(499, 10)) THEN "Red"
    ELSE IF Le(Fin(499, 10), h) /\ Lt(h, Fin(749, 10)) THEN "Yellow"
    ELSE IF Le(Fin(749, 10), h) /\ Le(h, Num(100)) THEN "Green"
    ELSE "NaN"

Health_Band(h) ==
    IF Lt(Num(-1), h) /\ Le(h, Fin(499, 10)) THEN "Red"
    ELSE IF Lt(Fin(499, 10), h) /\ Le(h, Fin(749, 10)) THEN "Yellow"
    ELSE IF Lt(Fin(749, 10), h) /\ Le(h, Num(100)) THEN "Green"
    ELSE "NaN"

Days_to_Renewal(c) == Sub(c.Renewal_Date, Num(today))

scores(c, maxLogins, maxTickets) ==
    [ score_nps     |-> score_nps(c),
      score_csat    |-> score_csat(c),
      score_usage   |-> Usage_Ratio(c),
      score_logins  |-> score_logins(c, maxLogins),
      score_tickets |-> score_tickets(c, maxTickets) ]

enriched(c, s, h) ==
    [ NPS                 |-> c.NPS,
      Tickets_Last_90d    |-> c.Tickets_Last_90d,
      CSAT                |-> c.CSAT,
      Logins_Last_30d     |-> c.Logins_Last_30d,
      Active_Users        |-> c.Active_Users,
      Total_Seats         |-> c.Total_Seats,
      Usage_Ratio         |-> s.score_usage,
      score_nps           |-> s.score_nps,
      score_csat          |-> s.score_csat,
      score_usage         |-> s.score_usage,
      score_logins        |-> s.score_logins,
      score_tickets       |-> s.score_tickets,
      Health_Score        |-> h,
      Health_Band         |-> Health_Band(h),
      Days_to_Renewal     |-> Days_to_Renewal(c),
      Expansion_Potential |-> "unset",
      Renewal_Risk        |-> "unset",
      Recommended_Actions |-> <<>> ]

\* The enriched rows a raw row can become: one per outcome of the rounding.
rows_of(raw, maxLogins, maxTickets, w) ==
    LET c == coerce(raw)
        s == scores(c, maxLogins, maxTickets)
    IN  {enriched(c, s, h) : h \in Health_Score(s, w)}

RECURSIVE tables(_, _, _, _, _)
tables(i, raws, maxLogins, maxTickets, w) ==
    IF i = 0 THEN {<<>>}
    ELSE {Append(t, row) : t \in tables(i - 1, raws, maxLogins, maxTickets, w),
                           row \in rows_of(raws[i], maxLogins, maxTickets, w)}

compute_health_scores(raws, w) ==
    LET maxLogins  == SeriesMax({coerce(raws[i]).Logins_Last_30d : i \in 1..Len(raws)})
        maxTickets == SeriesMax({coerce(raws[i]).Tickets_Last_90d : i \in 1..Len(raws)})
    IN  tables(Len(raws), raws, maxLogins, maxTickets, w)

----------------------------------------------------------------------------
(* Per-row classification and recommendations *)

expansion_potential_one_threshold(row) ==
    IF row.Health_Band = "Green" /\ Gt(row.Usage_Ratio, Fin(7, 10))
          /\ Ge(row.NPS, Num(50))
    THEN "High"
    ELSE IF row.Health_Band = "Yellow" /\ Gt(row.Usage_Ratio, Fin(7, 10))
               /\ Ge(row.NPS, Num(20))
         THEN "Medium"
         ELSE "Low"

expansion_potential(row) ==
    IF row.Health_Band = "Green" /\ Gt(row.Usage_Ratio, Fin(7, 10))
          /\ Ge(row.NPS, Num(50))
    THEN "High"
    ELSE IF row.Health_Band = "Yellow" /\ Gt(row.Usage_Ratio, Fin(5, 10))
               /\ Ge(row.NPS, Num(20))
         THEN "Medium"
         ELSE "Low"

renewal_risk(row) ==
    IF row.Health_Band = "Red" THEN "High"
    ELSE IF row.Health_Band = "Yellow" THEN "Medium"
    ELSE "Low"

MsgRed == "Schedule executive-sponsored escalation and detailed recovery plan."

MsgYellow == "Run focused health check and align on 90-day success plan."

MsgGreen == "Reinforce value with EBR/QBR and explore expansion paths."

MsgLowUsage == "Low adoption: run enablement sessions and map more use cases."

MsgHighUsage == "High adoption: discuss seat expansion or advanced modules."

MsgTickets == "High support volume: review top ticket themes and propose fixes."

MsgNegNPS == "Negative NPS: hold stakeholder interviews and address pain points."

MsgPromoter == "Promoter: invite to reference program or case study."

MsgCSAT == "Improve support quality: review SLAs and support playbook."

MsgRenewal == "Renewal <120 days: lock in mutual success plan and early commit."

\* Attribute lookup on a cell of a row: row["Tickets_Last_90d"] is a scalar
\* number (int, float or their numpy counterparts), and none of these has a
\* method named median; only Series and DataFrame do.
scalar_has_attr(name) == name \in {"real", "imag", "conjugate"}

health_actions(row) ==
    IF row.Health_Band = "Red" THEN <<MsgRed>>
    ELSE IF row.Health_Band = "Yellow" THEN <<MsgYellow>>
    ELSE <<MsgGreen>>

usage_actions(row) ==
    IF Lt(row.Usage_Ratio, Fin(4, 10)) THEN <<MsgLowUsage>>
    ELSE IF Gt(row.Usage_Ratio, Fin(8, 10)) THEN <<MsgHighUsage>>
    ELSE <<>>

\* Reached only if the cell had a median of its own: the cell compared with
\* itself.
tickets_actions(row) ==
    IF Gt(row.Tickets_Last_90d, row.Tickets_Last_90d) THEN <<MsgTickets>> ELSE <<>>

nps_actions(row) ==
    IF Lt(row.NPS, Num(0)) THEN <<MsgNegNPS>>
    ELSE IF Ge(row.NPS, Num(50)) THEN <<MsgPromoter>>
    ELSE <<>>

csat_actions(row) ==
    IF Lt(row.CSAT, Fin(35, 10)) THEN <<MsgCSAT>> ELSE <<>>

\* A failed date gives NaN, which is not None and compares False with 120.
renewal_actions(row) ==
    IF Le(row.Days_to_Renewal, Num(120)) THEN <<MsgRenewal>> ELSE <<>>

\* The result of a call: raised is the exception (or "" when it returns).
recommended_actions(row) ==
    IF ~scalar_has_attr("median")
    THEN [raised |-> "AttributeError", value |-> <<>>]
    ELSE [raised |-> "",
          value  |-> health_actions(row) \o usage_actions(row)
                       \o tickets_actions(row) \o nps_actions(row)
                       \o csat_actions(row) \o renewal_actions(row)]

----------------------------------------------------------------------------
(* Inputs *)

DataCols ==
    { "Renewal_Date", "NPS", "Tickets_Last_90d", "CSAT", "Logins_Last_30d",
      "Active_Users", "Total_Seats" }

RawRow(nps, csat, tickets, logins, active, seats, renewal) ==
    [c \in DataCols |->
        CASE c = "NPS"              -> nps
          [] c = "CSAT"             -> csat
          [] c = "Tickets_Last_90d" -> tickets
          [] c = "Logins_Last_30d"  -> logins
          [] c = "Active_Users"     -> active
          [] c = "Total_Seats"      -> seats
          [] c = "Renewal_Date"     -> renewal]

NPSCells == {NumCell(-100, 1), NumCell(30, 1), NumCell(80, 1)}

CSATCells == {NumCell(1, 1), NumCell(5, 1)}

TicketCells == {NumCell(0, 1), NumCell(4, 1)}

LoginCells == {NumCell(-5, 1), NumCell(0, 1), NumCell(10, 1)}

ActiveCells == {NumCell(0, 1), NumCell(6, 1), NumCell(12, 1)}

SeatCells == {NumCell(0, 1), NumCell(10, 1), BadCell}

\* The rows of the record under study.
StudyRows ==
    {RawRow(nps, csat, t, l, a, s, DateCell(100)) :
        nps \in NPSCells, csat \in CSATCells, t \in TicketCells,
        l \in LoginCells, a \in ActiveCells, s \in SeatCells}

\* The rows of the rest of the batch: they set the batch maxima and median.
OtherRows ==
    { RawRow(NumCell(30, 1), NumCell(4, 1), NumCell(0, 1), NumCell(0, 1),
             NumCell(6, 1), NumCell(10, 1), BadCell),
      RawRow(NumCell(30, 1), NumCell(4, 1), NumCell(0, 1), NumCell(20, 1),
             NumCell(6, 1), NumCell(10, 1), DateCell(200)),
      RawRow(NumCell(30, 1), NumCell(4, 1), NumCell(8, 1), NumCell(20, 1),
             NumCell(6, 1), NumCell(10, 1), DateCell(200)) }

RECURSIVE Batches(_)
Batches(n) ==
    IF n = 1 THEN {<<r>> : r \in StudyRows}
    ELSE {Append(b, r) : b \in Batches(n - 1), r \in OtherRows}

AllBatches == UNION {Batches(n) : n \in 1..MaxRecords}

\* Slider positions 0.0 .. 5.0 in steps of 0.5; the defaults are 3, 2, 3, 1, 2.
Slider(halves) == Fin(halves, 2)

SliderMin == 0

default_weights ==
    [nps |-> Slider(6), csat |-> Slider(4), usage |-> Slider(6),
     logins |-> Slider(2), tickets |-> Slider(4)]

WeightChoices ==
    {[nm \in WeightNames |-> IF nm \in on THEN default_weights[nm] ELSE Slider(SliderMin)] :
        on \in SUBSET WeightNames}

MissingChoices ==
    {M \in SUBSET RequiredSet : Cardinality(M) >= 1 /\ Cardinality(M) <= MaxMissing}

Restrict(raws, cols) ==
    [i \in 1..Len(raws) |-> [c \in DataCols \cap cols |-> raws[i][c]]]

\* One-row tables scored on usage alone, Active_Users/Total_Seats running
\* through the thousandths: every one-decimal score from 0.0 to 100.0 occurs.
SweepSeats == 1000

SweepRow(a) ==
    RawRow(NumCell(30, 1), NumCell(4, 1), NumCell(0, 1), NumCell(10, 1),
           NumCell(a, 1), NumCell(SweepSeats, 1), BadCell)

usage_only ==
    [nm \in WeightNames |-> IF nm = "usage" THEN default_weights[nm] ELSE Slider(SliderMin)]

NoError == [kind |-> "", cols |-> <<>>]

Init ==
    /\ \/ /\ columns = RequiredSet
          /\ df_raw \in AllBatches
          /\ weights \in WeightChoices
       \/ /\ columns = RequiredSet
          /\ \E a \in 0..SweepSeats : df_raw = <<SweepRow(a)>>
          /\ weights = usage_only
       \/ /\ \E M \in MissingChoices : columns = RequiredSet \ M
          /\ \E b \in {<<r>> : r \in OtherRows} : df_raw = Restrict(b, columns)
          /\ weights = default_weights
    /\ pc = "loaded"
    /\ df = <<>>
    /\ error = NoError

----------------------------------------------------------------------------
(* The run of the script *)

\* lines 180-183
Validate ==
    /\ pc = "loaded"
    /\ IF missing(columns) # <<>>
       THEN /\ error' = [kind |-> "MissingColumns", cols |-> missing(columns)]
            /\ pc' = "stopped"
       ELSE /\ error' = error
            /\ pc' = "validated"
    /\ UNCHANGED <<columns, df_raw, weights, df>>

\* line 185
ComputeHealthScores ==
    /\ pc = "validated"
    /\ df' \in compute_health_scores(df_raw, weights)
    /\ pc' = "scored"
    /\ UNCHANGED <<columns, df_raw, weights, error>>

\* line 186
ApplyExpansionPotential ==
    /\ pc = "scored"
    /\ df' = [i \in 1..Len(df) |->
                [df[i] EXCEPT !.Expansion_Potential = expansion_potential(df[i])]]
    /\ pc' = "expansion"
    /\ UNCHANGED <<columns, df_raw, weights, error>>

\* line 187
ApplyRenewalRisk ==
    /\ pc = "expansion"
    /\ df' = [i \in 1..Len(df) |->
                [df[i] EXCEPT !.Renewal_Risk = renewal_risk(df[i])]]
    /\ pc' = "risk"
    /\ UNCHANGED <<columns, df_raw, weights, error>>

\* line 188: the first row whose call raises ends the run, and the column is
\* not assigned.
ApplyRecommendedActions ==
    /\ pc = "risk"
    /\ IF \E i \in 1..Len(df) : recommended_actions(df[i]).raised # ""
       THEN /\ error' = [kind |-> "AttributeError", cols |-> <<>>]
            /\ pc' = "crashed"
            /\ df' = df
       ELSE /\ df' = [i \in 1..Len(df) |->
                        [df[i] EXCEPT !.Recommended_Actions =
                                          recommended_actions(df[i]).value]]
            /\ pc' = "done"
            /\ error' = error
    /\ UNCHANGED <<columns, df_raw, weights>>

Next ==
    \/ Validate
    \/ ComputeHealthScores
    \/ ApplyExpansionPotential
    \/ ApplyRenewalRisk
    \/ ApplyRecommendedActions

Spec == Init /\ [][Next]_vars

----------------------------------------------------------------------------
(* Vocabulary of the properties *)

Rows == 1..Len(df)

Scored == pc \in {"scored", "expansion", "risk", "crashed", "done"}

Classified == pc \in {"expansion", "risk", "crashed", "done"}

RiskAssigned == pc \in {"risk", "crashed", "done"}

Finished == pc \in {"crashed", "done"}

PositiveSum == Gt(SumWeights(weights), Num(0))

InUnit(x) == IsFin(x) /\ 0 <= x.n /\ x.n <= x.d

Contains(seq, m) == \E j \in 1..Len(seq) : seq[j] = m

\* Twice the weight, an integer: the sliders move in halves.
Halves(x) == (2 * x.n) \div x.d

BatchTickets == {df[i].Tickets_Last_90d : i \in Rows}

BatchLogins == {df[i].Logins_Last_30d : i \in Rows}

IsBatchMax(x, S) == x \in S /\ \A y \in S : Le(y, x)

\* The k-th smallest ticket count of the batch, and the batch median.
KthTickets(k) ==
    CHOOSE v \in BatchTickets :
        /\ Cardinality({i \in Rows : Lt(df[i].Tickets_Last_90d, v)}) < k
        /\ k <= Cardinality({i \in Rows : Le(df[i].Tickets_Last_90d, v)})

MedianTickets ==
    IF Len(df) % 2 = 1 THEN KthTickets((Len(df) + 1) \div 2)
    ELSE Div(Add(KthTickets(Len(df) \div 2), KthTickets(Len(df) \div 2 + 1)), Num(2))

----------------------------------------------------------------------------
(* C1: with a zero weight sum the run aborts before any record is scored:  *)
(* no state of such a run has a scored table (a Health_Score, a            *)
(* Health_Band or a recommendation on a record).                           *)
C1_ZeroSumNeverScored ==
    SumWeights(weights) = Num(0) =>
        /\ df = <<>>
        /\ pc \in {"loaded", "validated", "stopped"}

(* C2: with non-negative weights of positive sum, the Health_Score of      *)
(* every record of a scored table is within [0,100].                       *)
C2_HealthScoreInRange ==
    (Scored /\ PositiveSum) =>
        \A i \in Rows : /\ Le(Num(0), df[i].Health_Score)
                        /\ Le(df[i].Health_Score, Num(100))

(* C3: when required columns are missing the run stops with an error that  *)
(* lists exactly the missing required columns, and nothing is computed; a  *)
(* non-numeric or empty Total_Seats cell is no error and becomes 1.        *)
C3_MissingColumnsHalt ==
    /\ (RequiredSet \ columns # {}) =>
          /\ pc \in {"loaded", "stopped"}
          /\ df = <<>>
    /\ (pc = "stopped") =>
          /\ error.kind = "MissingColumns"
          /\ {error.cols[j] : j \in 1..Len(error.cols)} = RequiredSet \ columns
          /\ Len(error.cols) = Cardinality(RequiredSet \ columns)
          /\ error.cols # <<>>
    /\ Scored =>
          /\ error.kind # "MissingColumns"
          /\ \A i \in Rows :
                df_raw[i]["Total_Seats"].t = "bad" => df[i].Total_Seats = Num(1)

C3_Witness ==
    /\ pc = "stopped"
    /\ Contains(error.cols, "Total_Seats")
    /\ Len(error.cols) = 2

(* C4: every one-decimal Health_Score in [0,100] has exactly one band:     *)
(* Red up to 49.9 included, Yellow above 49.9 up to 74.9 included, Green   *)
(* above 74.9.                                                             *)
C4_BandPartition ==
    Scored =>
        \A i \in Rows :
            LET h == df[i].Health_Score
                b == df[i].Health_Band
            IN  (IsFin(h) /\ 0 <= h.n /\ h.n <= 100 * h.d) =>
                    /\ b \in {"Red", "Yellow", "Green"}
                    /\ (b = "Red") <=> (10 * h.n <= 499 * h.d)
                    /\ (b = "Yellow") <=> (499 * h.d < 10 * h.n /\ 10 * h.n <= 749 * h.d)
                    /\ (b = "Green") <=> (749 * h.d < 10 * h.n)

C4_Witness ==
    /\ Scored
    /\ \E i \in Rows : df[i].Health_Score = Fin(499, 10) /\ df[i].Health_Band = "Red"

(* C5: the Usage_Ratio of every record is in [0,1], also when Active_Users *)
(* exceeds Total_Seats and when Total_Seats is zero or negative.           *)
C5_UsageRatioInUnit ==
    Scored => \A i \in Rows : InUnit(df[i].Usage_Ratio)

(* C6: each of the five per-metric scores of every record is in [0,1]      *)
(* whatever the inputs, and when the batch maximum of logins is 0 the      *)
(* score_logins of every record is 0.                                      *)
C6_ScoresInUnit ==
    Scored =>
        /\ \A i \in Rows :
              /\ InUnit(df[i].score_nps)
              /\ InUnit(df[i].score_csat)
              /\ InUnit(df[i].score_usage)
              /\ InUnit(df[i].score_logins)
              /\ InUnit(df[i].score_tickets)
        /\ IsBatchMax(Num(0), BatchLogins) =>
              \A i \in Rows : df[i].score_logins = Num(0)

\* A record with every metric at its worst value.
Worst(i) ==
    /\ df[i].NPS = Num(-100)
    /\ df[i].CSAT = Num(1)
    /\ df[i].Usage_Ratio = Num(0)
    /\ df[i].Logins_Last_30d = Num(0)
    /\ IsBatchMax(df[i].Tickets_Last_90d, BatchTickets)

(* C7 as stated: a record with every metric at its worst value has all     *)
(* five sub-scores 0, Health_Score 0.0, band Red and Renewal_Risk High,    *)
(* for any positive-sum weights.                                           *)
C7_WorstRecordScoresZero ==
    (Scored /\ PositiveSum) =>
        \A i \in Rows :
            Worst(i) =>
                /\ df[i].score_nps = Num(0)
                /\ df[i].score_csat = Num(0)
                /\ df[i].score_usage = Num(0)
                /\ df[i].score_logins = Num(0)
                /\ df[i].score_tickets = Num(0)
                /\ df[i].Health_Score = Num(0)
                /\ df[i].Health_Band = "Red"
                /\ RiskAssigned => df[i].Renewal_Risk = "High"

(* C7 amended: a record with every metric at its worst value and a         *)
(* non-zero batch maximum of tickets has score_nps, score_usage,           *)
(* score_logins and score_tickets 0 and score_csat 0.2; its Health_Score   *)
(* is 20 * w_csat / (sum of weights) rounded to one decimal (3.6 for the   *)
(* default weights, 0.0 when w_csat is 0), its band is Red and its         *)
(* Renewal_Risk is High, for any positive-sum weights.                     *)
C7_WorstRecordAmended ==
    (Scored /\ PositiveSum) =>
        \A i \in Rows :
            (Worst(i) /\ df[i].Tickets_Last_90d # Num(0)) =>
                LET h == df[i].Health_Score
                    S == Halves(SumWeights(weights))
                    a == Halves(weights["csat"])
                IN  /\ df[i].score_nps = Num(0)
                    /\ df[i].score_csat = Fin(1, 5)
                    /\ df[i].score_usage = Num(0)
                    /\ df[i].score_logins = Num(0)
                    /\ df[i].score_tickets = Num(0)
                    /\ IsFin(h)
                    /\ 10 % h.d = 0
                    /\ 2 * Abs(10 * h.n * S - 200 * a * h.d) <= S * h.d
                    /\ (weights = default_weights) => h = Fin(36, 10)
                    /\ (a = 0) => h = Num(0)
                    /\ df[i].Health_Band = "Red"
                    /\ RiskAssigned => df[i].Renewal_Risk = "High"

C7_Witness ==
    /\ RiskAssigned
    /\ weights = default_weights
    /\ \E i \in Rows :
          /\ Worst(i)
          /\ df[i].Tickets_Last_90d # Num(0)
          /\ df[i].Health_Score = Fin(36, 10)
          /\ df[i].Renewal_Risk = "High"

(* C8: Expansion_Potential is High iff the band is Green, Usage_Ratio >    *)
(* 0.7 and NPS >= 50; otherwise Medium iff the band is Yellow,             *)
(* Usage_Ratio > 0.5 and NPS >= 20; otherwise Low.  A Red record is Low    *)
(* and a Green record that fails the High test is Low.                     *)
C8_ExpansionPotential ==
    Classified =>
        \A i \in Rows :
            LET u    == df[i].Usage_Ratio
                nps  == df[i].NPS
                high == /\ df[i].Health_Band = "Green"
                        /\ IsFin(u) /\ 10 * u.n > 7 * u.d
                        /\ nps.n >= 50 * nps.d
                med  == /\ df[i].Health_Band = "Yellow"
                        /\ IsFin(u) /\ 10 * u.n > 5 * u.d
                        /\ nps.n >= 20 * nps.d
                ep   == df[i].Expansion_Potential
            IN  /\ ep \in {"High", "Medium", "Low"}
                /\ (ep = "High") <=> high
                /\ (ep = "Medium") <=> (~high /\ med)
                /\ df[i].Health_Band = "Red" => ep = "Low"
                /\ df[i].Health_Band = "Green" => ep # "Medium"

C8_Witness ==
    /\ Classified
    /\ \E i \in Rows :
          /\ df[i].Health_Band = "Yellow"
          /\ df[i].Usage_Ratio = Fin(6, 10)
          /\ df[i].NPS = Num(30)
          /\ df[i].Expansion_Potential = "Medium"

(* C9: once the recommendations have been applied, a record's actions      *)
(* contain the high-support-volume string iff its Tickets_Last_90d is      *)
(* strictly greater than the median of Tickets_Last_90d over the batch.    *)
C9_TicketsAboveBatchMedian ==
    Finished =>
        \A i \in Rows :
            Contains(df[i].Recommended_Actions, MsgTickets)
                <=> Gt(df[i].Tickets_Last_90d, MedianTickets)

BandMsgs == {MsgRed, MsgYellow, MsgGreen}

(* C10: once the recommendations have been applied, every record's         *)
(* Recommended_Actions starts with exactly one band string, holds between  *)
(* 1 and 6 strings, and holds the renewal string iff Days_to_Renewal is    *)
(* defined and at most 120.                                                *)
C10_ActionsShape ==
    Finished =>
        \A i \in Rows :
            LET acts == df[i].Recommended_Actions
            IN  /\ Len(acts) >= 1
                /\ Len(acts) <= 6
                /\ acts[1] \in BandMsgs
                /\ \A j \in 2..Len(acts) : acts[j] \notin BandMsgs
                /\ \A j, l \in 1..Len(acts) : acts[j] = acts[l] => j = l
                /\ Contains(acts, MsgRenewal)
                      <=> (IsFin(df[i].Days_to_Renewal)
                             /\ df[i].Days_to_Renewal.n <= 120)

====
